---- MODULE Spec2Model ----
(***************************************************************************)
(* Model of the climate-risk dashboard (src/app.py) and of the standalone  *)
(* raster converter (src/conver.py).                                       *)
(*                                                                         *)
(*   Spec        one run of app.main(): sidebar -> show_map/load_vector -> *)
(*               per risk type save_raster_as_png, overlay_raster_on_map   *)
(*               -> st_folium.                                             *)
(*   SpecNorm    the two normalizers as functions of one input file.       *)
(*   SpecResolve the path templates as functions of a selection query.     *)
(*                                                                         *)
(* Floats are modelled as rationals <<numerator, denominator>>; a zero     *)
(* denominator is the IEEE result of a division by zero (0/0 = NaN).       *)
(***************************************************************************)
EXTENDS Integers, Sequences, FiniteSets, TLC

VARIABLES
    pc,         \* position of the script run inside main()
    query,      \* what sidebar() returned
    legends,    \* the risk types whose legend image exists on disk
    fs,         \* raster files found at the paths opened so far
    disk,       \* contents of the output PNG files
    city_map,   \* the folium map: sequence of layers in order of add_to
    reports,    \* st.error / st.warning / st.success / print calls, in order
    i,          \* loop index of `for risk_type in risk_types`
    ret,        \* (raster_png, bounds) of the last save_raster_as_png
    nfile,      \* SpecNorm: the input file
    ndone,      \* SpecNorm: which normalizer ran, and what it returned
    rq,         \* SpecResolve: the selection query
    rout        \* SpecResolve: the resolved paths

vars == <<pc, query, legends, fs, disk, city_map, reports, i, ret,
          nfile, ndone, rq, rout>>

-----------------------------------------------------------------------------
(* Bounds of the model *)

MaxPixels == 4      \* rasters of 1..MaxPixels pixels
MaxVal == 3         \* pixel values 0..MaxVal
MaxBands == 2       \* rasters of 1..MaxBands bands
MaxRisks == 2       \* risk-type selections of 0..MaxRisks entries

-----------------------------------------------------------------------------
(* Python values *)

None == << >>
Some(x) == <<x>>

Range(s) == {s[k] : k \in DOMAIN s}

\* str.lower() on the risk-type labels
Lower(s) ==
    CASE s = "Flood" -> "flood"
      [] s = "Heat" -> "heat"
      [] s = "Drought" -> "drought"
      [] OTHER -> s

-----------------------------------------------------------------------------
(* Configuration tables *)

DATA_FOLDERS ==
    [tp \in {"Base", "2030", "2050", "2080"} |->
        CASE tp = "Base" -> "data/base/"
          [] tp = "2030" -> "data/2030/"
          [] tp = "2050" -> "data/2050/"
          [] tp = "2080" -> "data/2080/"]

LEGEND_FILES ==
    [r \in {"Flood", "Heat", "Drought"} |->
        CASE r = "Flood" -> "assets/legend_flood.png"
          [] r = "Heat" -> "assets/legend_heat.png"
          [] r = "Drought" -> "assets/legend_drought.png"]

\* the options of the sidebar widgets
SidebarRegions == {"Mumbai"}
SidebarExtents == {"Urban Local Body", "Village"}
SidebarTimes == {"Base", "2030", "2050", "2080"}
SidebarRisks == {"Flood", "Heat", "Drought"}

\* st.multiselect returns the chosen options in order, without duplicates
RiskLists ==
    {s \in UNION {[1..n -> SidebarRisks] :
                     n \in 0..(IF MaxRisks < Cardinality(SidebarRisks)
                               THEN MaxRisks ELSE Cardinality(SidebarRisks))} :
        \A a, b \in DOMAIN s : a # b => s[a] # s[b]}

-----------------------------------------------------------------------------
(* Floating point: <<n, d>> is n/d; d = 0 is a division by zero *)

Float(v) == <<v, 1>>
NaN == <<0, 0>>
IsNaN(x) == x = NaN

\* a - b on array elements (both with denominator 1, or NaN)
FSub(a, b) == IF IsNaN(a) \/ IsNaN(b) THEN NaN ELSE <<a[1] - b[1], 1>>

\* a / b: b = 0 gives NaN (0/0) or an infinity (x/0), never an exception
FDiv(a, b) ==
    IF IsNaN(a) \/ IsNaN(b) THEN NaN
    ELSE IF b[1] = 0 THEN (IF a[1] = 0 THEN NaN ELSE <<(IF a[1] > 0 THEN 1 ELSE -1), 0>>)
    ELSE <<a[1], b[1]>>

FMul(a, k) == <<a[1] * k, a[2]>>

\* The values a cast of NaN to uint8 is taken to produce (the cast is
\* undefined in C; numpy reports "invalid value encountered in cast").
NaNCastOutcomes == {0, 255}

\* ndarray.astype(np.uint8) of one element: truncation for a finite value in
\* range, `ub` (whatever the build produces) for NaN, infinities and
\* out-of-range values.
AsUint8(x, ub) ==
    IF x[2] = 0 \/ x[1] < 0 \/ x[1] \div x[2] > 255 THEN ub ELSE x[1] \div x[2]

-----------------------------------------------------------------------------
(* Files *)

\* what may be found at a raster path
Missing == [kind |-> "missing", count |-> 0, nodata |-> None, band1 |-> << >>]
Unreadable == [kind |-> "unreadable", count |-> 0, nodata |-> None, band1 |-> << >>]
Raster(count, nodata, band1) ==
    [kind |-> "raster", count |-> count, nodata |-> nodata, band1 |-> band1]

\* src.bounds of every raster of the model
SampleBounds == [left |-> 72, bottom |-> 18, right |-> 73, top |-> 19]

OutputFiles == {"processed_raster.png", "grayscale_raster.png"}
EmptyDisk == [f \in OutputFiles |-> None]
\* an image left behind by an earlier run
StaleImage == [src |-> "earlier run", pixels |-> <<0>>]

-----------------------------------------------------------------------------
(* Reports shown to the user *)

Report(level, msg, path) == [level |-> level, msg |-> msg, path |-> path]

-----------------------------------------------------------------------------
(* Raster normalization (app.py save_raster_as_png, conver.py) *)

\* (mutation of MaskNoData: the NoData value is never masked)
MaskNoDataIgnored(band, nodata) == [k \in DOMAIN band |-> Float(band[k])]

\* app.py: image = src.read(1).astype(float);
\*         if src.nodata is not None: image[image == src.nodata] = np.nan
MaskNoData(band, nodata) ==
    [k \in DOMAIN band |->
        IF nodata # None /\ band[k] = nodata[1] THEN NaN ELSE Float(band[k])]

\* conver.py: image[image == src.nodata] = np.nan, with no test of nodata
\* (an array compared with None is False everywhere)
ConverMaskNoData(band, nodata) ==
    [k \in DOMAIN band |-> IF Some(band[k]) = nodata THEN NaN ELSE Float(band[k])]

ValidValues(image) == {image[k][1] : k \in {j \in DOMAIN image : ~IsNaN(image[j])}}

\* np.nanmin / np.nanmax: NaN entries are ignored; NaN when all are NaN
NanMin(image) ==
    IF ValidValues(image) = {} THEN NaN
    ELSE Float(CHOOSE m \in ValidValues(image) : \A v \in ValidValues(image) : m <= v)

NanMax(image) ==
    IF ValidValues(image) = {} THEN NaN
    ELSE Float(CHOOSE m \in ValidValues(image) : \A v \in ValidValues(image) : m >= v)

\* ((image - min_val) / (max_val - min_val) * 255).astype(np.uint8);
\* u[k] is what the build's cast yields at pixel k when the value is not
\* representable.
Normalize(image, u) ==
    LET min_val == NanMin(image)
        max_val == NanMax(image)
    IN  [k \in DOMAIN image |->
            AsUint8(FMul(FDiv(FSub(image[k], min_val), FSub(max_val, min_val)), 255),
                    u[k])]

\* (mutation of WritePng: an existing output file is kept)
WritePngIfAbsent(dsk, output_png, source, norm_image) ==
    IF dsk[output_png] # None THEN dsk
    ELSE [dsk EXCEPT ![output_png] = Some([src |-> source, pixels |-> norm_image])]

\* plt.imsave(output_png, norm_image, cmap="gray", format='png'): the file
\* now holds the picture of norm_image (tagged here with the raster it came
\* from).  imsave draws the array through the gray colormap scaled to the
\* array's own minimum and maximum; the model keeps the array handed to it.
WritePng(dsk, output_png, source, norm_image) ==
    [dsk EXCEPT ![output_png] = Some([src |-> source, pixels |-> norm_image])]

Outcome(raised, png, bounds, reps, dsk) ==
    [raised |-> raised, png |-> png, bounds |-> bounds, reports |-> reps, disk |-> dsk]

\* (mutation of save_raster_as_png: no os.path.exists test, so opening an
\* absent file raises)
save_raster_as_png_unchecked(raster_path, output_png, file, dsk, u) ==
    IF file.kind \in {"missing", "unreadable"}
    THEN Outcome(TRUE, None, None, << >>, dsk)
    ELSE Outcome(FALSE, Some(output_png), Some(SampleBounds), << >>,
                 WritePng(dsk, output_png, raster_path,
                          Normalize(MaskNoData(file.band1, file.nodata), u)))

\* app.py save_raster_as_png(raster_path, output_png), with `file` what the
\* file system holds at raster_path and `dsk` the output files before the call
save_raster_as_png(raster_path, output_png, file, dsk, u) ==
    IF file.kind = "missing"
    THEN Outcome(FALSE, None, None,
                 <<Report("error", "Raster file not found", raster_path)>>, dsk)
    ELSE IF file.kind = "unreadable"
    THEN \* rasterio.open raises; nothing here catches it
         Outcome(TRUE, None, None, << >>, dsk)
    ELSE Outcome(FALSE, Some(output_png), Some(SampleBounds), << >>,
                 WritePng(dsk, output_png, raster_path,
                          Normalize(MaskNoData(file.band1, file.nodata), u)))

\* conver.py convert_single_band_tiff_to_grayscale_png(input_tiff, output_png);
\* it returns the path only, so bounds is always None
convert_single_band_tiff_to_grayscale_png(input_tiff, output_png, file, dsk, u) ==
    IF file.kind = "missing"
    THEN Outcome(FALSE, None, None,
                 <<Report("print", "Error: Raster file not found", input_tiff)>>, dsk)
    ELSE IF file.kind = "unreadable"
    THEN Outcome(TRUE, None, None, << >>, dsk)
    ELSE IF file.count > 1
    THEN Outcome(FALSE, None, None,
                 <<Report("print", "Warning: Multi-band TIFF detected", input_tiff)>>, dsk)
    ELSE Outcome(FALSE, Some(output_png), None,
                 <<Report("print", "Successfully converted", input_tiff)>>,
                 WritePng(dsk, output_png, input_tiff,
                          Normalize(ConverMaskNoData(file.band1, file.nodata), u)))

-----------------------------------------------------------------------------
(* Map composition (app.py) *)

Layer(kind, name, data, bounds) ==
    [kind |-> kind, name |-> name, data |-> data, bounds |-> bounds]

\* folium.raster_layers.ImageOverlay(image=raster_png, bounds=..., name=...):
\* the image file is read when the overlay is constructed
ImageOverlay(raster_png, bounds, layer_name, dsk) ==
    Layer("ImageOverlay", layer_name, dsk[raster_png],
          Some(<<<<bounds.bottom, bounds.left>>, <<bounds.top, bounds.right>>>>))

Composed(map_obj, reps) == [map |-> map_obj, reports |-> reps]

\* (mutation of overlay_raster_on_map: the layer is put under the others)
overlay_raster_on_map_first(map_obj, raster_png, bounds, layer_name, dsk) ==
    IF raster_png = None \/ bounds = None
    THEN Composed(map_obj,
                  <<Report("error", "Unable to overlay raster", layer_name)>>)
    ELSE Composed(<<ImageOverlay(raster_png[1], bounds[1], layer_name, dsk)>> \o map_obj,
                  << >>)

\* overlay_raster_on_map(map_obj, raster_png, bounds, layer_name)
overlay_raster_on_map(map_obj, raster_png, bounds, layer_name, dsk) ==
    IF raster_png = None \/ bounds = None
    THEN Composed(map_obj,
                  <<Report("error", "Unable to overlay raster", layer_name)>>)
    ELSE Composed(Append(map_obj,
                         ImageOverlay(raster_png[1], bounds[1], layer_name, dsk)),
                  << >>)

\* what may be found at a vector path
VectorFiles == {"missing", "malformed", "ok"}

\* load_vector(shapefile_path, map_obj, layer_name), with `vfile` what the
\* file system holds at shapefile_path
load_vector(shapefile_path, map_obj, layer_name, vfile) ==
    IF vfile = "missing"
    THEN Composed(map_obj,
                  <<Report("warning", "Vector file not found", shapefile_path)>>)
    ELSE IF vfile = "malformed"
    THEN \* gpd.read_file raises inside the try block
         Composed(map_obj,
                  <<Report("error", "Error loading vector file", shapefile_path)>>)
    ELSE Composed(Append(map_obj, Layer("GeoJson", layer_name, Some(shapefile_path), None)),
                  <<Report("success", "Vector layer loaded", shapefile_path)>>)

\* show_map: the branch on extent that picks the boundary file
VectorFile(region, extent) ==
    IF extent = "ULB" THEN "data/" \o region \o "/ulb.shp"
    ELSE IF extent = "Village" THEN "data/" \o region \o "/village.shp"
    ELSE "data/" \o region \o "/mmr.shp"

\* show_map(region, city, time_projection, extent): a fresh map with the
\* boundary layer of the extent
show_map(region, extent, vfile) ==
    load_vector(VectorFile(region, extent), << >>, extent, vfile)

\* main: raster_path = f"data/{region}/{time_projection}/{risk_type.lower()}.tif"
RasterPath(region, time_projection, risk_type) ==
    "data/" \o region \o "/" \o time_projection \o "/" \o Lower(risk_type) \o ".tif"

\* display_region_stats(region, extent)
display_region_stats(region, extent) ==
    IF extent = "Urban Local Body" THEN Report("write", "Urban Local Body Stats", region)
    ELSE IF extent = "Village" THEN Report("write", "Village Stats", region)
    ELSE Report("write", "Region Stats", region)

-----------------------------------------------------------------------------
(* One run of app.main() *)

\* raster files of the runs: absent, present but not openable, single band
\* with a NoData value, and two bands (SpecNorm covers the other rasters)
SampleRasters ==
    {Raster(1, Some(0), <<0, 1, 3>>), Raster(2, None, <<1, 2>>)}

PipelineFiles == {Missing, Unreadable} \cup SampleRasters

StaleDisk == [f \in OutputFiles |-> Some(StaleImage)]

Query(region, time_projection, risk_types, extent) ==
    [region |-> region, time_projection |-> time_projection,
     risk_types |-> risk_types, extent |-> extent]

NoQuery == Query("", "", << >>, "")

\* the state before the script runs: the files on disk are the environment's
Init ==
    /\ pc = "sidebar"
    /\ query = NoQuery
    /\ legends \in SUBSET SidebarRisks
    /\ fs = << >>
    /\ disk \in {EmptyDisk, StaleDisk}
    /\ city_map = << >>
    /\ reports = << >>
    /\ i = 0
    /\ ret = <<None, None>>
    /\ nfile = Missing
    /\ ndone = None
    /\ rq = NoQuery
    /\ rout = None

\* main: sidebar() and the first display_region_stats
Sidebar ==
    /\ pc = "sidebar"
    /\ \E region \in SidebarRegions, extent \in SidebarExtents,
          time_projection \in SidebarTimes, risk_type \in RiskLists :
          /\ query' = Query(region, time_projection, risk_type, extent)
          /\ reports' = Append(reports, display_region_stats(region, extent))
    /\ pc' = "show_map"
    /\ UNCHANGED <<legends, fs, disk, city_map, i, ret, nfile, ndone, rq, rout>>

\* main: city_map = show_map(...), then `if risk_types: st.write(...)`
ShowMap ==
    /\ pc = "show_map"
    /\ \E vfile \in VectorFiles :
          LET c == show_map(query.region, query.extent, vfile)
          IN  /\ city_map' = c.map
              /\ reports' = reports \o c.reports \o
                    (IF query.risk_types # << >>
                     THEN <<Report("write", "Adding selected risk layers", "")>>
                     ELSE << >>)
    /\ i' = 1
    /\ pc' = "loop"
    /\ UNCHANGED <<query, legends, fs, disk, ret, nfile, ndone, rq, rout>>

\* main, loop body, first statement pair: raster_path and save_raster_as_png
SaveRaster ==
    /\ pc = "loop"
    /\ i <= Len(query.risk_types)
    /\ \E file \in PipelineFiles :
       \E u \in [DOMAIN file.band1 -> NaNCastOutcomes] :
          LET raster_path == RasterPath(query.region, query.time_projection,
                                        query.risk_types[i])
              o == save_raster_as_png(raster_path, "processed_raster.png", file, disk, u)
          IN  /\ fs' = Append(fs, file)
              /\ IF o.raised
                 THEN /\ pc' = "crashed"
                      /\ UNCHANGED <<disk, reports, ret>>
                 ELSE /\ pc' = "overlay"
                      /\ disk' = o.disk
                      /\ reports' = reports \o o.reports
                      /\ ret' = <<o.png, o.bounds>>
    /\ UNCHANGED <<query, legends, city_map, i, nfile, ndone, rq, rout>>

\* main, loop body, last statement: overlay_raster_on_map
OverlayRaster ==
    /\ pc = "overlay"
    /\ LET c == overlay_raster_on_map(city_map, ret[1], ret[2], query.risk_types[i], disk)
       IN  /\ city_map' = c.map
           /\ reports' = reports \o c.reports
    /\ i' = i + 1
    /\ pc' = "loop"
    /\ UNCHANGED <<query, legends, fs, disk, ret, nfile, ndone, rq, rout>>

\* main: the two columns, st_folium(city_map) and the statistics
Render ==
    /\ pc = "loop"
    /\ i > Len(query.risk_types)
    /\ reports' = reports \o <<Report("write", "Statistical Information", ""),
                               display_region_stats(query.region, query.extent)>>
    /\ pc' = "done"
    /\ UNCHANGED <<query, legends, fs, disk, city_map, i, ret, nfile, ndone, rq, rout>>

Next == Sidebar \/ ShowMap \/ SaveRaster \/ OverlayRaster \/ Render

Spec == Init /\ [][Next]_vars

-----------------------------------------------------------------------------
(* The normalizers as functions of one input file *)

PixelSeqs == UNION {[1..n -> 0..MaxVal] : n \in 1..MaxPixels}

NormInputs ==
    {Missing, Unreadable} \cup
    {Raster(c, nd, b) : c \in 1..MaxBands,
                        nd \in {None} \cup {Some(v) : v \in 0..MaxVal},
                        b \in PixelSeqs}

InitNorm ==
    /\ pc = "norm"
    /\ query = NoQuery
    /\ legends = {}
    /\ fs = << >>
    /\ disk = EmptyDisk
    /\ city_map = << >>
    /\ reports = << >>
    /\ i = 0
    /\ ret = <<None, None>>
    /\ nfile \in NormInputs
    /\ ndone = None
    /\ rq = NoQuery
    /\ rout = None

Done(fn, o) == Some([fn |-> fn, out |-> o])

\* a call save_raster_as_png("in.tif")
CallSaveRaster ==
    /\ pc = "norm"
    /\ ndone = None
    /\ \E u \in [DOMAIN nfile.band1 -> NaNCastOutcomes] :
          ndone' = Done("save_raster_as_png",
                        save_raster_as_png("in.tif", "processed_raster.png", nfile, disk, u))
    /\ UNCHANGED <<pc, query, legends, fs, disk, city_map, reports, i, ret, nfile, rq, rout>>

\* a call convert_single_band_tiff_to_grayscale_png("in.tif")
CallConvert ==
    /\ pc = "norm"
    /\ ndone = None
    /\ \E u \in [DOMAIN nfile.band1 -> NaNCastOutcomes] :
          ndone' = Done("convert_single_band_tiff_to_grayscale_png",
                        convert_single_band_tiff_to_grayscale_png(
                            "in.tif", "grayscale_raster.png", nfile, disk, u))
    /\ UNCHANGED <<pc, query, legends, fs, disk, city_map, reports, i, ret, nfile, rq, rout>>

NextNorm == CallSaveRaster \/ CallConvert

SpecNorm == InitNorm /\ [][NextNorm]_vars

-----------------------------------------------------------------------------
(* Path resolution as a function of the selection query *)

ResolveRegions == SidebarRegions \cup {"Pune"}
ResolveExtents == SidebarExtents \cup {"ULB", "Region"}
ResolveTimes == SidebarTimes \cup {"2100"}

\* the paths one run opens: show_map's vector_file and main's raster_path
ResolvePaths(q) ==
    [vector |-> VectorFile(q.region, q.extent),
     rasters |-> [k \in DOMAIN q.risk_types |->
                     RasterPath(q.region, q.time_projection, q.risk_types[k])]]

InitResolve ==
    /\ pc = "resolve"
    /\ query = NoQuery
    /\ legends = {}
    /\ fs = << >>
    /\ disk = EmptyDisk
    /\ city_map = << >>
    /\ reports = << >>
    /\ i = 0
    /\ ret = <<None, None>>
    /\ nfile = Missing
    /\ ndone = None
    /\ rq \in {Query(r, t, l, e) : r \in ResolveRegions, t \in ResolveTimes,
                                   l \in RiskLists, e \in ResolveExtents}
    /\ rout = None

Resolve ==
    /\ pc = "resolve"
    /\ rout = None
    /\ rout' = Some(ResolvePaths(rq))
    /\ UNCHANGED <<pc, query, legends, fs, disk, city_map, reports, i, ret, nfile, ndone, rq>>

NextResolve == Resolve

SpecResolve == InitResolve /\ [][NextResolve]_vars

-----------------------------------------------------------------------------
(* Properties of one run of main() *)

Count(seq, Test(_)) == Cardinality({k \in DOMAIN seq : Test(seq[k])})

IsOverlay(layer) == layer.kind = "ImageOverlay"
IsBoundary(layer) == layer.kind = "GeoJson"
IsLegend(layer) == layer.kind = "Legend"

\* the k-th raster path of the run
PathOf(k) == RasterPath(query.region, query.time_projection, query.risk_types[k])

\* the loop has run over every requested risk type
LoopOver == pc = "done" /\ Len(fs) = Len(query.risk_types)

\* two risk types were requested and the two files opened were one absent
\* file and one raster that opens, in the order m, p
OneMissingOnePresent(m, p) ==
    /\ Len(query.risk_types) = 2
    /\ Len(fs) = 2
    /\ {m, p} = {1, 2}
    /\ fs[m] = Missing
    /\ fs[p].kind = "raster"

RasterFailed(k) == fs[k].kind # "raster" \/ fs[k].count > 1

\* C2: no single-layer failure is fatal: whatever the vector and raster files
\* are, the run is never ended by an exception, and once the map is rendered
\* every failed raster was reported and skipped and every other requested
\* raster has its overlay.
C2_NoFailureIsFatal ==
    /\ pc # "crashed"
    /\ LoopOver =>
          \A k \in DOMAIN fs :
              IF RasterFailed(k)
              THEN /\ Count(city_map, LAMBDA l :
                            IsOverlay(l) /\ l.name = query.risk_types[k]) = 0
                   /\ \E r \in Range(reports) :
                          r.level = "error" /\ r.path \in {PathOf(k), query.risk_types[k]}
              ELSE Count(city_map, LAMBDA l :
                            IsOverlay(l) /\ l.name = query.risk_types[k]) = 1

\* position of a risk type in the request
Requested(name) == {k \in DOMAIN query.risk_types : query.risk_types[k] = name}

\* C4: the boundary layer, when present, is the first layer of the map, every
\* other layer is the overlay of a requested risk type, and the overlays
\* stand in the order in which the risk types were requested.
C4_LayerOrder ==
    /\ \A k \in DOMAIN city_map : IsBoundary(city_map[k]) => k = 1
    /\ \A k \in DOMAIN city_map :
          ~IsBoundary(city_map[k]) =>
              IsOverlay(city_map[k]) /\ Requested(city_map[k].name) # {}
    /\ \A a, b \in DOMAIN city_map :
          (a < b /\ IsOverlay(city_map[a]) /\ IsOverlay(city_map[b])) =>
              \A ka \in Requested(city_map[a].name), kb \in Requested(city_map[b].name) :
                  ka < kb

C4_Witness ==
    /\ pc = "done"
    /\ Len(city_map) = 3
    /\ IsBoundary(city_map[1])
    /\ IsOverlay(city_map[2])
    /\ IsOverlay(city_map[3])
    /\ Len(query.risk_types) = 2

\* C5: once the map is rendered, every requested risk type with a known
\* legend image on disk has exactly one legend layer, put after the raster
\* overlays, and the other risk types have none.
C5_LegendsAttached ==
    pc = "done" =>
        /\ \A r \in Range(query.risk_types) :
              Count(city_map, LAMBDA l : IsLegend(l) /\ l.name = r) =
                  (IF r \in DOMAIN LEGEND_FILES /\ r \in legends THEN 1 ELSE 0)
        /\ \A a, b \in DOMAIN city_map :
              (IsLegend(city_map[a]) /\ IsOverlay(city_map[b])) => b < a

\* the boundary file named by load_vector's report
VectorReports ==
    {r \in Range(reports) :
        r.msg \in {"Vector file not found", "Error loading vector file",
                   "Vector layer loaded"}}

\* C9: for each extent the sidebar offers, show_map loads the boundary file of
\* that extent: ulb.shp for "Urban Local Body", village.shp for "Village".
C9_ExtentBoundary ==
    pc \in {"loop", "overlay", "done", "crashed"} =>
        \A r \in VectorReports :
            r.path = (IF query.extent = "Urban Local Body"
                      THEN "data/" \o query.region \o "/ulb.shp"
                      ELSE "data/" \o query.region \o "/village.shp")

\* C10: every conversion writes processed_raster.png and no other file, and
\* every overlay on the map was registered from the image normalized from the
\* raster of its own risk type.
C10_OwnImage ==
    /\ ret[1] \in {None, Some("processed_raster.png")}
    /\ disk["grayscale_raster.png"] \in {None, Some(StaleImage)}
    /\ \A k \in DOMAIN city_map :
          IsOverlay(city_map[k]) =>
              /\ city_map[k].data # None
              /\ \E j \in Requested(city_map[k].name) :
                    /\ j <= Len(fs)
                    /\ city_map[k].data[1].src = PathOf(j)
                    /\ \E u \in [DOMAIN fs[j].band1 -> NaNCastOutcomes] :
                          city_map[k].data[1].pixels =
                              Normalize(MaskNoData(fs[j].band1, fs[j].nodata), u)

C10_Witness ==
    /\ pc = "done"
    /\ Count(city_map, IsOverlay) = 2
    /\ \E a, b \in DOMAIN city_map :
          /\ a < b
          /\ IsOverlay(city_map[a])
          /\ IsOverlay(city_map[b])
          /\ city_map[a].data # city_map[b].data

-----------------------------------------------------------------------------
(* Properties of the normalizers *)

\* what the call returned
Out == ndone[1].out

\* the pixels of the image file the call returned
OutPixels == Out.disk[Out.png[1]][1].pixels

\* the positions of the input raster that do not hold its NoData value
ValidAt == {k \in DOMAIN nfile.band1 : nfile.nodata = None \/ nfile.band1[k] # nfile.nodata[1]}

ValidSet == {nfile.band1[k] : k \in ValidAt}
MinValid == CHOOSE m \in ValidSet : \A v \in ValidSet : m <= v
MaxValid == CHOOSE m \in ValidSet : \A v \in ValidSet : m >= v

\* a normalizer ran on a single-band raster with a declared NoData value and
\* at least two distinct valid values
C6_Case ==
    /\ ndone # None
    /\ nfile.kind = "raster"
    /\ nfile.count = 1
    /\ nfile.nodata # None
    /\ Cardinality(ValidSet) >= 2

\* C6: for a single-band raster with a declared NoData value and two or more
\* distinct valid values, both normalizers write an image in which every
\* valid pixel v holds floor((v - min) / (max - min) * 255), min and max taken
\* over the valid pixels only; these values lie in 0..255, grow with v, and
\* are 0 at the minimum and 255 at the maximum.
C6_LinearRescale ==
    C6_Case =>
        /\ ~Out.raised
        /\ Out.png # None
        /\ DOMAIN OutPixels = DOMAIN nfile.band1
        /\ \A k \in ValidAt :
              /\ OutPixels[k] =
                    ((nfile.band1[k] - MinValid) * 255) \div (MaxValid - MinValid)
              /\ OutPixels[k] \in 0..255
              /\ nfile.band1[k] = MinValid => OutPixels[k] = 0
              /\ nfile.band1[k] = MaxValid => OutPixels[k] = 255
        /\ \A k, l \in ValidAt :
              nfile.band1[k] <= nfile.band1[l] => OutPixels[k] <= OutPixels[l]

\* a NoData pixel below every valid value, and a valid value strictly between
\* the minimum and the maximum
C6_Witness ==
    /\ C6_Case
    /\ ndone[1].fn = "save_raster_as_png"
    /\ \E k \in DOMAIN nfile.band1 : k \notin ValidAt /\ nfile.band1[k] < MinValid
    /\ \E k \in ValidAt : OutPixels[k] \notin {0, 255}

\* C7: normalizing a single-band raster whose valid pixels all hold the same
\* value raises nothing and writes an image whose valid pixels all hold one
\* and the same value of 0..255, the same whatever the build.
C7_ConstantIsUniform ==
    (/\ ndone # None
     /\ nfile.kind = "raster"
     /\ nfile.count = 1
     /\ Cardinality(ValidSet) = 1) =>
        /\ ~Out.raised
        /\ Out.png # None
        /\ \A k, l \in ValidAt : OutPixels[k] = OutPixels[l]
        /\ \A k \in ValidAt : OutPixels[k] \in 0..255
        /\ \A u \in [DOMAIN nfile.band1 -> NaNCastOutcomes] :
              \A k \in ValidAt :
                  OutPixels[k] =
                      Normalize(MaskNoData(nfile.band1, nfile.nodata), u)[k]

\* C8: both normalizers reject a raster with more than one band: one report,
\* no image path returned, and the output files left as they were.
C8_MultiBandRejected ==
    (ndone # None /\ nfile.kind = "raster" /\ nfile.count > 1) =>
        /\ ~Out.raised
        /\ Out.png = None
        /\ Len(Out.reports) = 1
        /\ Out.disk = disk

-----------------------------------------------------------------------------
(* Properties of the path resolution *)

====
